---- MODULE Spec2Model ----
(***************************************************************************)
(* Version-history subsystem of the document editor.                       *)
(*                                                                         *)
(* Two layers are modelled:                                                *)
(*   - the database: tables documents and document_versions, the row level *)
(*     security policies, the foreign key with ON DELETE CASCADE and the   *)
(*     trigger trigger_create_document_version (the automatic recorder);   *)
(*   - the client store useDocumentStore (documentStore.ts): every async   *)
(*     action is cut at its awaits, so that calls in flight interleave.    *)
(***************************************************************************)
EXTENDS Integers, Sequences, FiniteSets, TLC

\* ------------------------------------------------------------------ bounds
\* Total number of store calls started in one behaviour.
MaxCalls == 3
\* Number of store calls that may be in flight at the same time.
MaxInFlight == 2
\* Number of document rows ever inserted (ids are never reused).
MaxDocs == 2

\* ------------------------------------------------------------------ values
Titles == {"Draft", "Final"}
Contents == {"", "Hello"}
Users == {"u1"}
\* supabase.auth.getUser() yields user = null when nobody is signed in
NoUser == "null"
\* store.currentDocument = null
NoDocument == [id |-> 0]
\* store.error = null
NoError == "null"
\* an id that no row ever has (a caller may pass any string as an id)
NoId == 0
\* No auto-save timeout is pending
NoTimeout == -1
\* lastSaved: null
NoDate == -1

VARIABLES
    now,                \* the clock (NOW(), new Date()); it advances with every
                        \* write transaction, so no two transactions share a time
    user,               \* the signed-in user of the supabase session, or NoUser
    documents_tbl,      \* table documents: id -> row, for the existing rows
    document_versions,  \* table document_versions, rows in insertion order
    nextDocId,          \* gen_random_uuid() for documents.id
    nextVersionId,      \* gen_random_uuid() for document_versions.id
    documents,          \* store.documents
    currentDocument,    \* store.currentDocument
    versions,           \* store.versions
    loading,            \* store.loading
    versionsLoading,    \* store.versionsLoading
    error,              \* store.error
    calls,              \* the store calls in flight, each at one of its awaits
    started,            \* number of store calls started so far
    page_id,            \* DocumentPage: the id of its route, NoId when not mounted
    page_title,         \* DocumentPage: its state `title`
    page_content,       \* DocumentPage: its state `content`
    timeoutId,          \* DocumentPage: time left on the auto-save timeout, or NoTimeout
    lastSaved,          \* DocumentPage: its state `lastSaved`, or NoDate
    saving,             \* DocumentPage: the updateDocument calls saveDocument awaits
    panel_documentId,   \* VersionHistory: its documentId while isOpen, else NoId
    restoring           \* VersionHistory: the restoreVersion calls handleRestore awaits

vars == <<now, user, documents_tbl, document_versions, nextDocId, nextVersionId,
          documents, currentDocument, versions, loading, versionsLoading, error,
          calls, started, page_id, page_title, page_content, timeoutId,
          lastSaved, saving, panel_documentId, restoring>>

dbVars == <<documents_tbl, document_versions, nextDocId, nextVersionId>>
storeVars == <<documents, currentDocument, versions, loading, versionsLoading, error>>
pageVars == <<page_id, page_title, page_content, timeoutId>>
saveVars == <<lastSaved, saving>>
panelVars == <<panel_documentId, restoring>>
viewVars == <<pageVars, saveVars, panelVars>>

\* ------------------------------------------------------------ the database

\* Mutant of the policy of documents: every session passes
DocumentPolicy_Open(uid, row) ==
    TRUE

\* Policy "Users can manage their own documents": auth.uid() = user_id
DocumentPolicy(uid, row) ==
    uid # NoUser /\ uid = row.user_id

\* Policy "Users can access versions of their own documents":
\* document_id IN (SELECT id FROM documents WHERE user_id = auth.uid())
VersionPolicy(uid, tbl, document_id) ==
    /\ document_id \in DOMAIN tbl
    /\ DocumentPolicy(uid, tbl[document_id])

\* CHECK (change_type IN (...)) of document_versions
ChangeTypes == {"created", "title_updated", "content_modified", "restored"}

\* Mutants of the decision of create_document_version()
\* - the INSERT case is missing
ChangeTypeVal_NoInsertCase(TG_OP, old, new) ==
    IF old.title # new.title /\ old.content # new.content THEN "content_modified"
    ELSE IF old.title # new.title THEN "title_updated"
    ELSE IF old.content # new.content THEN "content_modified"
    ELSE "none"

\* - the title is looked at before the pair
ChangeTypeVal_TitleFirst(TG_OP, old, new) ==
    IF TG_OP = "INSERT" THEN "created"
    ELSE IF old.title # new.title THEN "title_updated"
    ELSE IF old.content # new.content THEN "content_modified"
    ELSE "none"

\* - any change is a content change
ChangeTypeVal_AnyChange(TG_OP, old, new) ==
    IF TG_OP = "INSERT" THEN "created"
    ELSE IF old.title # new.title \/ old.content # new.content THEN "content_modified"
    ELSE "none"

\* - the ELSE branch records a version too
ChangeTypeVal_AlwaysVersion(TG_OP, old, new) ==
    IF TG_OP = "INSERT" THEN "created"
    ELSE IF old.title # new.title /\ old.content # new.content THEN "content_modified"
    ELSE IF old.title # new.title THEN "title_updated"
    ELSE "content_modified"

\* - a change of both fields is taken for a restore
ChangeTypeVal_Restored(TG_OP, old, new) ==
    IF TG_OP = "INSERT" THEN "created"
    ELSE IF old.title # new.title /\ old.content # new.content THEN "restored"
    ELSE IF old.title # new.title THEN "title_updated"
    ELSE IF old.content # new.content THEN "content_modified"
    ELSE "none"

\* The decision of create_document_version(): the change type, or "none" when
\* the function returns NEW without inserting a version.
ChangeTypeVal(TG_OP, old, new) ==
    IF TG_OP = "INSERT" THEN "created"
    ELSE IF old.title # new.title /\ old.content # new.content THEN "content_modified"
    ELSE IF old.title # new.title THEN "title_updated"
    ELSE IF old.content # new.content THEN "content_modified"
    ELSE "none"

\* A row of document_versions
VersionRow(vid, document_id, title, content, change_type, user_id, t) ==
    [id |-> vid, document_id |-> document_id, title |-> title, content |-> content,
     change_type |-> change_type, user_id |-> user_id, created_at |-> t]

\* Mutant of the trigger: an update records the previous title and content
create_document_version_OldValues(vers, vid, TG_OP, old, new, t) ==
    LET change_type_val == ChangeTypeVal(TG_OP, old, new)
        row == IF TG_OP = "INSERT" THEN new ELSE old
    IN IF change_type_val = "none" THEN vers
       ELSE Append(vers, VersionRow(vid, new.id, row.title, row.content,
                                    change_type_val, new.user_id, t))

\* Mutant of the trigger: the new version takes the place of the last version
\* of the document instead of being appended after it
create_document_version_Overwrite(vers, vid, TG_OP, old, new, t) ==
    LET change_type_val == ChangeTypeVal(TG_OP, old, new) IN
    IF change_type_val = "none" THEN vers
    ELSE Append(SelectSeq(vers, LAMBDA v : v.document_id # new.id),
                VersionRow(vid, new.id, new.title, new.content,
                           change_type_val, new.user_id, t))

\* create_document_version(): the rows of document_versions after the trigger
\* has run for one row of documents (for an INSERT, OLD is not read).
create_document_version(vers, vid, TG_OP, old, new, t) ==
    LET change_type_val == ChangeTypeVal(TG_OP, old, new) IN
    IF change_type_val = "none" THEN vers
    ELSE Append(vers, VersionRow(vid, new.id, new.title, new.content,
                                 change_type_val, new.user_id, t))

\* Mutant of the foreign key: no ON DELETE CASCADE
OnDeleteCascade_NoCascade(vers, id) ==
    vers

\* document_id UUID REFERENCES documents(id) ON DELETE CASCADE: the rows of
\* document_versions left when the documents row `id` is deleted.
OnDeleteCascade(vers, id) ==
    SelectSeq(vers, LAMBDA v : v.document_id # id)

\* A row of documents
DocumentRow(id, title, content, user_id, created, updated) ==
    [id |-> id, title |-> title, content |-> content, user_id |-> user_id,
     created_at |-> created, updated_at |-> updated]

\* INSERT INTO documents (title, content, user_id) ... RETURNING *: the new row
InsertedDocument(id, title, content, user_id, t) ==
    DocumentRow(id, title, content, user_id, t, t)

\* UPDATE documents SET title, content, updated_at WHERE id = ...: the new row
\* (the trigger update_documents_updated_at sets updated_at = NOW())
UpdatedDocument(row, title, content, t) ==
    [row EXCEPT !.title = title, !.content = content, !.updated_at = t]

\* The rows an UPDATE or DELETE ... WHERE id = `id` touches for the caller `uid`
\* (row level security hides the rows of other users: no row, and no error)
Touches(uid, tbl, id) ==
    id \in DOMAIN tbl /\ DocumentPolicy(uid, tbl[id])

\* Mutant of the order: ORDER BY key ASC
RECURSIVE OrderDesc_Ascending(_, _)
OrderDesc_Ascending(S, key) ==
    IF S = {} THEN <<>>
    ELSE LET x == CHOOSE r \in S : \A q \in S : r[key] <= q[key]
         IN <<x>> \o OrderDesc_Ascending(S \ {x}, key)

\* ORDER BY key DESC of a set of rows (the keys of the rows differ)
RECURSIVE OrderDesc(_, _)
OrderDesc(S, key) ==
    IF S = {} THEN <<>>
    ELSE LET x == CHOOSE r \in S : \A q \in S : r[key] >= q[key]
         IN <<x>> \o OrderDesc(S \ {x}, key)

\* The rows of a sequence, as a set
Range(s) == {s[i] : i \in 1..Len(s)}

\* ------------------------------------------------------------- store calls

\* A call of a store action that is in flight: the action, the await it is at,
\* its arguments and the values it has read so far.
Call(cid, op, pc, id, versionId, title, content, uid, t) ==
    [cid |-> cid, op |-> op, pc |-> pc, id |-> id, versionId |-> versionId,
     title |-> title, content |-> content, user_id |-> uid, at |-> t]

\* A new call may start
CanStart ==
    started < MaxCalls /\ Cardinality(calls) < MaxInFlight

\* The ids a caller passes: an id of a row that was inserted, or some other id
DocIdArgs == 0..(nextDocId - 1)
VersionIdArgs == 0..(nextVersionId - 1)

\* The store's copy of a document after updateDocument / restoreVersion
\* ({...doc, title, content, updated_at: new Date().toISOString()})
LocalUpdate(doc, title, content, t) ==
    [doc EXCEPT !.title = title, !.content = content, !.updated_at = t]

\* documents.map(doc => doc.id === id ? {...} : doc)
MapDocuments(docs, id, title, content, t) ==
    [i \in 1..Len(docs) |->
        IF docs[i].id = id THEN LocalUpdate(docs[i], title, content, t) ELSE docs[i]]

Replace(c, c2) == (calls \ {c}) \cup {c2}
Remove(c) == calls \ {c}

\* set({ loading: true, error: null }) and the first request of a new call
StartCall(op, pc, id, versionId) ==
    /\ started' = started + 1
    /\ calls' = calls \cup {Call(started + 1, op, pc, id, versionId, "", "", NoUser, 0)}

\* ---------------------------------------------------- database transactions

\* UPDATE documents SET title, content, updated_at WHERE id = `id`, with the
\* trigger trigger_create_document_version, as one transaction of the session.
\* (The trigger's INSERT passes the policy of document_versions, since the row
\* it was fired for passed the policy of documents.)
DbUpdateDocument(id, title, content) ==
    LET t == now + 1 IN
    /\ now' = t
    /\ IF Touches(user, documents_tbl, id)
       THEN LET old == documents_tbl[id]
                new == UpdatedDocument(old, title, content, t)
                vers == create_document_version(document_versions, nextVersionId,
                                                "UPDATE", old, new, t)
            IN /\ documents_tbl' = [documents_tbl EXCEPT ![id] = new]
               /\ document_versions' = vers
               /\ nextVersionId' = IF vers = document_versions
                                   THEN nextVersionId ELSE nextVersionId + 1
       ELSE UNCHANGED <<documents_tbl, document_versions, nextVersionId>>
    /\ UNCHANGED nextDocId

\* INSERT INTO documents (title, content, user_id), with the trigger
DbInsertDocument(title, content, user_id) ==
    LET t == now + 1
        new == InsertedDocument(nextDocId, title, content, user_id, t)
    IN /\ now' = t
       /\ documents_tbl' = documents_tbl @@ (nextDocId :> new)
       /\ document_versions' = create_document_version(document_versions, nextVersionId,
                                                       "INSERT", new, new, t)
       /\ nextVersionId' = IF document_versions' = document_versions
                           THEN nextVersionId ELSE nextVersionId + 1
       /\ nextDocId' = nextDocId + 1

\* DELETE FROM documents WHERE id = `id`, with the cascade to document_versions
DbDeleteDocument(id) ==
    /\ now' = now + 1
    /\ IF Touches(user, documents_tbl, id)
       THEN /\ documents_tbl' = [d \in DOMAIN documents_tbl \ {id} |-> documents_tbl[d]]
            /\ document_versions' = OnDeleteCascade(document_versions, id)
       ELSE UNCHANGED <<documents_tbl, document_versions>>
    /\ UNCHANGED <<nextDocId, nextVersionId>>

\* INSERT INTO document_versions: accepted when the foreign key and the policy
\* hold for document_id
VersionInsertAccepted(uid, tbl, document_id) ==
    /\ document_id \in DOMAIN tbl
    /\ VersionPolicy(uid, tbl, document_id)

\* ------------------------------------------------------------ fetchDocuments

FetchDocumentsCall ==
    /\ StartCall("fetchDocuments", "select", NoId, NoId)
    /\ loading' = TRUE
    /\ error' = NoError
    /\ UNCHANGED <<now, user, dbVars, documents, currentDocument, versions, versionsLoading>>

FetchDocumentsDone(c, ok) ==
    /\ c.op = "fetchDocuments" /\ c.pc = "select"
    /\ calls' = Remove(c)
    /\ loading' = FALSE
    /\ IF ok
       THEN /\ documents' = OrderDesc({documents_tbl[d] : d \in
                              {x \in DOMAIN documents_tbl : DocumentPolicy(user, documents_tbl[x])}},
                              "updated_at")
            /\ UNCHANGED error
       ELSE /\ error' = "Failed to fetch documents"
            /\ UNCHANGED documents
    /\ UNCHANGED <<now, user, dbVars, currentDocument, versions, versionsLoading, started>>

\* ------------------------------------------------------------- fetchDocument

FetchDocumentCall(id) ==
    /\ StartCall("fetchDocument", "select", id, NoId)
    /\ loading' = TRUE
    /\ error' = NoError
    /\ UNCHANGED <<now, user, dbVars, documents, currentDocument, versions, versionsLoading>>

FetchDocumentDone(c, ok) ==
    /\ c.op = "fetchDocument" /\ c.pc = "select"
    /\ calls' = Remove(c)
    /\ loading' = FALSE
    /\ IF ok /\ Touches(user, documents_tbl, c.id)
       THEN /\ currentDocument' = documents_tbl[c.id]
            /\ UNCHANGED error
       ELSE /\ error' = "Failed to fetch document"
            /\ UNCHANGED currentDocument
    /\ UNCHANGED <<now, user, dbVars, documents, versions, versionsLoading, started>>

\* ------------------------------------------------------------ createDocument

CreateDocumentCall(title) ==
    /\ started' = started + 1
    /\ calls' = calls \cup {Call(started + 1, "createDocument", "getUser", NoId, NoId,
                                 title, "", NoUser, 0)}
    /\ loading' = TRUE
    /\ error' = NoError
    /\ UNCHANGED <<now, user, dbVars, documents, currentDocument, versions, versionsLoading>>

CreateDocumentGetUser(c) ==
    /\ c.op = "createDocument" /\ c.pc = "getUser"
    /\ IF user = NoUser
       THEN /\ calls' = Remove(c)
            /\ error' = "User not authenticated"
            /\ loading' = FALSE
       ELSE /\ calls' = Replace(c, [c EXCEPT !.pc = "insert", !.user_id = user])
            /\ UNCHANGED <<error, loading>>
    /\ UNCHANGED <<now, user, dbVars, documents, currentDocument, versions, versionsLoading, started>>

CreateDocumentInsert(c, ok) ==
    /\ c.op = "createDocument" /\ c.pc = "insert"
    /\ IF ok /\ nextDocId <= MaxDocs /\ DocumentPolicy(user, [user_id |-> c.user_id])
       THEN /\ DbInsertDocument(c.title, "", c.user_id)
            /\ calls' = Replace(c, [c EXCEPT !.pc = "local", !.id = nextDocId, !.at = now + 1])
            /\ UNCHANGED <<error, loading>>
       ELSE /\ calls' = Remove(c)
            /\ error' = "Failed to create document"
            /\ loading' = FALSE
            /\ UNCHANGED <<now, dbVars>>
    /\ UNCHANGED <<user, documents, currentDocument, versions, versionsLoading, started>>

CreateDocumentLocal(c) ==
    /\ c.op = "createDocument" /\ c.pc = "local"
    /\ calls' = Remove(c)
    /\ documents' = <<InsertedDocument(c.id, c.title, "", c.user_id, c.at)>> \o documents
    /\ loading' = FALSE
    /\ UNCHANGED <<now, user, dbVars, currentDocument, versions, versionsLoading, error, started>>

\* ------------------------------------------------------------- DashboardPage

\* White space, as String.prototype.trim() removes it
WhiteSpace == {" ", "\t"}

\* What the user types as the title of a new document: a text is the sequence
\* of its pieces, each a run of white space or a word
NewDocTitles ==
    {<<>>, <<" ">>, <<" ", "\t">>, <<"Draft">>, <<" ", "Draft", "\t">>, <<"Final", " ">>}

\* The string of a text
RECURSIVE Join(_)
Join(s) ==
    IF s = <<>> THEN "" ELSE Head(s) \o Join(Tail(s))

RECURSIVE TrimStart(_)
TrimStart(s) ==
    IF s # <<>> /\ Head(s) \in WhiteSpace THEN TrimStart(Tail(s)) ELSE s

RECURSIVE TrimEnd(_)
TrimEnd(s) ==
    IF s # <<>> /\ s[Len(s)] \in WhiteSpace THEN TrimEnd(SubSeq(s, 1, Len(s) - 1)) ELSE s

\* Mutant of trim(): the text is taken as it is
Trim_None(s) ==
    Join(s)

\* newDocTitle.trim()
Trim(s) ==
    Join(TrimEnd(TrimStart(s)))

\* handleCreateDocument of the dashboard, up to its await of createDocument
handleCreateDocument(newDocTitle) ==
    IF Trim(newDocTitle) = ""
    THEN UNCHANGED <<now, user, dbVars, storeVars, calls, started>>
    ELSE CreateDocumentCall(Trim(newDocTitle))

\* ------------------------------------------------------------ updateDocument

UpdateDocumentCall(id, title, content) ==
    /\ started' = started + 1
    /\ calls' = calls \cup {Call(started + 1, "updateDocument", "update", id, NoId,
                                 title, content, NoUser, 0)}
    /\ UNCHANGED <<now, user, dbVars, storeVars>>

UpdateDocumentUpdate(c, ok) ==
    /\ c.op = "updateDocument" /\ c.pc = "update"
    /\ IF ok
       THEN /\ DbUpdateDocument(c.id, c.title, c.content)
            /\ calls' = Replace(c, [c EXCEPT !.pc = "local"])
            /\ UNCHANGED error
       ELSE /\ calls' = Remove(c)
            /\ error' = "Failed to update document"
            /\ UNCHANGED <<now, dbVars>>
    /\ UNCHANGED <<user, documents, currentDocument, versions, loading, versionsLoading, started>>

UpdateDocumentLocal(c) ==
    /\ c.op = "updateDocument" /\ c.pc = "local"
    /\ calls' = Remove(c)
    /\ currentDocument' = IF currentDocument # NoDocument /\ currentDocument.id = c.id
                          THEN LocalUpdate(currentDocument, c.title, c.content, now)
                          ELSE currentDocument
    /\ documents' = MapDocuments(documents, c.id, c.title, c.content, now)
    /\ UNCHANGED <<now, user, dbVars, versions, loading, versionsLoading, error, started>>

\* ------------------------------------------------------------ deleteDocument

DeleteDocumentCall(id) ==
    /\ StartCall("deleteDocument", "delete", id, NoId)
    /\ loading' = TRUE
    /\ error' = NoError
    /\ UNCHANGED <<now, user, dbVars, documents, currentDocument, versions, versionsLoading>>

DeleteDocumentDelete(c, ok) ==
    /\ c.op = "deleteDocument" /\ c.pc = "delete"
    /\ IF ok
       THEN /\ DbDeleteDocument(c.id)
            /\ calls' = Replace(c, [c EXCEPT !.pc = "local"])
            /\ UNCHANGED <<error, loading>>
       ELSE /\ calls' = Remove(c)
            /\ error' = "Failed to delete document"
            /\ loading' = FALSE
            /\ UNCHANGED <<now, dbVars>>
    /\ UNCHANGED <<user, documents, currentDocument, versions, versionsLoading, started>>

DeleteDocumentLocal(c) ==
    /\ c.op = "deleteDocument" /\ c.pc = "local"
    /\ calls' = Remove(c)
    /\ documents' = SelectSeq(documents, LAMBDA doc : doc.id # c.id)
    /\ loading' = FALSE
    /\ currentDocument' = IF currentDocument # NoDocument /\ currentDocument.id = c.id
                          THEN NoDocument ELSE currentDocument
    /\ UNCHANGED <<now, user, dbVars, versions, versionsLoading, error, started>>

\* ---------------------------------------------------------------- clearError

ClearError ==
    /\ error' = NoError
    /\ UNCHANGED <<now, user, dbVars, documents, currentDocument, versions, loading,
                   versionsLoading, calls, started>>

\* ------------------------------------------------------- fetchVersionHistory

\* The email the embedded select user_email:user_id(email) resolves a user to
Email(uid) == [email |-> uid \o "@example.com"]
\* The embedded resource of a version whose user did not resolve
NoEmail == [email |-> ""]

\* version.user_email?.email || 'Unknown user'
UserEmail(user_email) ==
    IF user_email = NoEmail THEN "Unknown user" ELSE user_email.email

\* data.map(version => ({...version, user_email: ...})) for one version, given
\* the embedded resource the select returned for it
WithUserEmail(version, user_email) ==
    [id |-> version.id, document_id |-> version.document_id, title |-> version.title,
     content |-> version.content, change_type |-> version.change_type,
     user_id |-> version.user_id, created_at |-> version.created_at,
     user_email |-> UserEmail(user_email)]

\* SELECT ... FROM document_versions WHERE document_id = `id` ORDER BY created_at
\* DESC, for the caller `uid`
SelectVersions(uid, tbl, vers, id) ==
    OrderDesc({v \in Range(vers) : v.document_id = id /\ VersionPolicy(uid, tbl, v.document_id)},
              "created_at")

FetchVersionHistoryCall(documentId) ==
    /\ StartCall("fetchVersionHistory", "select", documentId, NoId)
    /\ versionsLoading' = TRUE
    /\ error' = NoError
    /\ UNCHANGED <<now, user, dbVars, documents, currentDocument, versions, loading>>

FetchVersionHistoryDone(c, ok, resolved) ==
    /\ c.op = "fetchVersionHistory" /\ c.pc = "select"
    /\ calls' = Remove(c)
    /\ versionsLoading' = FALSE
    /\ IF ok
       THEN /\ LET data == SelectVersions(user, documents_tbl, document_versions, c.id)
               IN versions' = [i \in 1..Len(data) |->
                                 WithUserEmail(data[i], IF resolved THEN Email(data[i].user_id)
                                                                    ELSE NoEmail)]
            /\ UNCHANGED error
       ELSE /\ error' = "Failed to fetch version history"
            /\ UNCHANGED versions
    /\ UNCHANGED <<now, user, dbVars, documents, currentDocument, loading, started>>

ClearVersions ==
    /\ versions' = <<>>
    /\ UNCHANGED <<now, user, dbVars, documents, currentDocument, loading, versionsLoading,
                   error, calls, started>>

\* ------------------------------------------------------------ restoreVersion

RestoreVersionCall(documentId, versionId) ==
    /\ StartCall("restoreVersion", "select", documentId, versionId)
    /\ loading' = TRUE
    /\ error' = NoError
    /\ UNCHANGED <<now, user, dbVars, documents, currentDocument, versions, versionsLoading>>

\* Mutant of the catch of restoreVersion: the failure is swallowed
RestoreVersionCatch_Swallowed(c) ==
    /\ calls' = Remove(c)
    /\ error' = NoError
    /\ loading' = FALSE

\* Mutant of the catch of restoreVersion: the call goes on to its next steps
RestoreVersionCatch_Continues(c) ==
    /\ calls' = Replace(c, [c EXCEPT !.pc = "getUser"])
    /\ error' = "Failed to restore version"
    /\ loading' = FALSE

\* catch (error) of restoreVersion
RestoreVersionCatch(c) ==
    /\ calls' = Remove(c)
    /\ error' = "Failed to restore version"
    /\ loading' = FALSE

\* Get the version to restore: .eq('id', versionId).single()
RestoreVersionSelect(c, ok) ==
    /\ c.op = "restoreVersion" /\ c.pc = "select"
    /\ LET found == {v \in Range(document_versions) :
                     v.id = c.versionId /\ VersionPolicy(user, documents_tbl, v.document_id)}
       IN IF ok /\ found # {}
          THEN /\ \E version \in found :
                    calls' = Replace(c, [c EXCEPT !.pc = "update", !.title = version.title,
                                                  !.content = version.content])
               /\ UNCHANGED <<error, loading>>
          ELSE RestoreVersionCatch(c)
    /\ UNCHANGED <<now, user, dbVars, documents, currentDocument, versions, versionsLoading, started>>

\* Mutant of the payload of the restore: the title is written to both fields
RestoreUpdates_TitleTwice(version) ==
    [title |-> version.title, content |-> version.title]

\* .update({ title: version.title, content: version.content, updated_at })
RestoreUpdates(version) ==
    [title |-> version.title, content |-> version.content]

\* Update the document with the version's content
RestoreVersionUpdate(c, ok) ==
    /\ c.op = "restoreVersion" /\ c.pc = "update"
    /\ IF ok
       THEN /\ DbUpdateDocument(c.id, RestoreUpdates(c).title, RestoreUpdates(c).content)
            /\ calls' = Replace(c, [c EXCEPT !.pc = "getUser"])
            /\ UNCHANGED <<error, loading>>
       ELSE /\ RestoreVersionCatch(c)
            /\ UNCHANGED <<now, dbVars>>
    /\ UNCHANGED <<user, documents, currentDocument, versions, versionsLoading, started>>

\* const { data: { user } } = await supabase.auth.getUser(); if (user) ...
RestoreVersionGetUser(c) ==
    /\ c.op = "restoreVersion" /\ c.pc = "getUser"
    /\ calls' = Replace(c, IF user # NoUser
                           THEN [c EXCEPT !.pc = "insert", !.user_id = user]
                           ELSE [c EXCEPT !.pc = "local"])
    /\ UNCHANGED <<now, user, dbVars, storeVars, started>>

\* Create a new version entry for the restore action; the result of the insert
\* is not looked at
RestoreVersionInsert(c, ok) ==
    /\ c.op = "restoreVersion" /\ c.pc = "insert"
    /\ calls' = Replace(c, [c EXCEPT !.pc = "local"])
    /\ IF ok /\ VersionInsertAccepted(user, documents_tbl, c.id)
       THEN /\ now' = now + 1
            /\ document_versions' = Append(document_versions,
                   VersionRow(nextVersionId, c.id, c.title, c.content, "restored",
                              c.user_id, now + 1))
            /\ nextVersionId' = nextVersionId + 1
            /\ UNCHANGED <<documents_tbl, nextDocId>>
       ELSE UNCHANGED <<now, dbVars>>
    /\ UNCHANGED <<user, storeVars, started>>

\* Update local state, and refresh the version history: fetchVersionHistory is
\* called without await, so its first set() runs here and its request is left
\* in flight.
RestoreVersionLocal(c) ==
    /\ c.op = "restoreVersion" /\ c.pc = "local"
    /\ currentDocument' = IF currentDocument # NoDocument /\ currentDocument.id = c.id
                          THEN LocalUpdate(currentDocument, c.title, c.content, now)
                          ELSE currentDocument
    /\ documents' = MapDocuments(documents, c.id, c.title, c.content, now)
    /\ loading' = FALSE
    /\ versionsLoading' = TRUE
    /\ error' = NoError
    /\ calls' = Replace(c, Call(c.cid, "fetchVersionHistory", "select", c.id, NoId,
                                "", "", NoUser, 0))
    /\ UNCHANGED <<now, user, dbVars, versions, started>>

\* ------------------------------------------------------------------ session

\* signIn of the auth store: the session gets a user
SignIn(u) ==
    /\ user = NoUser
    /\ user' = u
    /\ UNCHANGED <<now, dbVars, storeVars, calls, started>>

\* signOut of the auth store: the session loses its user
SignOut ==
    /\ user # NoUser
    /\ user' = NoUser
    /\ UNCHANGED <<now, dbVars, storeVars, calls, started>>

\* ------------------------------------------------------------- DocumentPage

\* setTimeout(() => saveDocument(), 1000): the delay, in ticks of 500 ms
AutoSaveDelay == 2

\* The page shows its editor (the title and the DocumentEditor): it is mounted
\* and takes none of the early returns for loading, error, !currentDocument
EditorShown ==
    /\ page_id # NoId
    /\ ~loading
    /\ error = NoError
    /\ currentDocument # NoDocument

\* Mutant of the check for changes: every timeout saves
HasChanges_Always(newTitle, newContent, doc) ==
    TRUE

\* Mutant of the check for changes: a document that was ever updated counts as
\* changed
HasChanges_Timestamp(newTitle, newContent, doc) ==
    \/ ~(newTitle = doc.title /\ newContent = doc.content)
    \/ doc.updated_at # doc.created_at

\* "Only save if there are changes" of saveDocument
HasChanges(newTitle, newContent, doc) ==
    ~(newTitle = doc.title /\ newContent = doc.content)

\* Mutant of the dependencies of the auto-save effect: store.error is one
AutoSaveDeps_WithError(newTitle, newContent, doc, err) ==
    <<newTitle, newContent, doc, err>>

\* The dependencies of the auto-save effect that change while the page is
\* mounted: [title, content, saveDocument, currentDocument]; store.error is
\* not among them
AutoSaveDeps(newTitle, newContent, doc, err) ==
    <<newTitle, newContent, doc>>

\* The auto-save effect: the pending timeout is cleared, and a new one is set
\* unless there is no currentDocument
AutoSaveEffect(doc) ==
    IF doc = NoDocument THEN NoTimeout ELSE AutoSaveDelay

\* "Set local state when document loads": the title and content of the page
\* after its effect for currentDocument = doc has run
LoadedTitle(doc, newTitle) == IF doc # NoDocument THEN doc.title ELSE newTitle
LoadedContent(doc, newContent) == IF doc # NoDocument THEN doc.content ELSE newContent

\* The step of the call c sets store.currentDocument to a new object: the
\* data of fetchDocument, or the merge of updateDocument into the document
\* with the id of the call. React compares the dependencies of an effect by
\* reference, so the effects run even when the new object has the old values.
NewCurrentDocument(c, ok) ==
    \/ c.op = "fetchDocument" /\ ok /\ Touches(user, documents_tbl, c.id)
    \/ /\ c.op = "updateDocument" /\ c.pc = "local" /\ ok
       /\ currentDocument # NoDocument /\ currentDocument.id = c.id

\* The page renders after a step of the store and runs its effects: a new
\* currentDocument is copied to title and content, and the auto-save effect
\* runs when one of its dependencies has changed.
DocumentPageEffects(newDocument) ==
    IF page_id = NoId THEN UNCHANGED pageVars
    ELSE LET changed == newDocument \/ currentDocument' # currentDocument
             newTitle == IF changed
                         THEN LoadedTitle(currentDocument', page_title) ELSE page_title
             newContent == IF changed
                           THEN LoadedContent(currentDocument', page_content)
                           ELSE page_content
         IN /\ page_id' = page_id
            /\ page_title' = newTitle
            /\ page_content' = newContent
            /\ timeoutId' =
                 IF \/ changed
                    \/ AutoSaveDeps(newTitle, newContent, currentDocument', error')
                          # AutoSaveDeps(page_title, page_content, currentDocument, error)
                 THEN AutoSaveEffect(currentDocument')
                 ELSE timeoutId

\* The route /docs/:id is entered: the page mounts and loads the document
DocumentPageMount(id) ==
    /\ page_id = NoId
    /\ page_id' = id
    /\ page_title' = LoadedTitle(currentDocument, "")
    /\ page_content' = LoadedContent(currentDocument, "")
    /\ timeoutId' = AutoSaveEffect(currentDocument)
    /\ lastSaved' = NoDate
    /\ saving' = {}
    /\ UNCHANGED panelVars
    /\ FetchDocumentCall(id)

\* navigate('/dashboard'): the page unmounts, its timeout is cleared
DocumentPageUnmount ==
    /\ page_id # NoId
    /\ page_id' = NoId
    /\ page_title' = ""
    /\ page_content' = ""
    /\ timeoutId' = NoTimeout
    /\ lastSaved' = NoDate
    /\ saving' = {}
    /\ UNCHANGED <<now, user, dbVars, storeVars, calls, started, panelVars>>

\* The user edits the title in the editor
handleTitleChange(newTitle) ==
    /\ EditorShown
    /\ newTitle # page_title
    /\ page_title' = newTitle
    /\ timeoutId' = AutoSaveEffect(currentDocument)
    /\ UNCHANGED <<page_id, page_content, now, user, dbVars, storeVars, calls, started,
                   saveVars, panelVars>>

\* The user edits the content in the editor
handleContentChange(newContent) ==
    /\ EditorShown
    /\ newContent # page_content
    /\ page_content' = newContent
    /\ timeoutId' = AutoSaveEffect(currentDocument)
    /\ UNCHANGED <<page_id, page_title, now, user, dbVars, storeVars, calls, started,
                   saveVars, panelVars>>

\* 500 ms pass on the pending timeout
Tick ==
    /\ timeoutId > 0
    /\ timeoutId' = timeoutId - 1
    /\ UNCHANGED <<page_id, page_title, page_content, now, user, dbVars, storeVars,
                   calls, started, saveVars, panelVars>>

\* saveDocument() as the timeout calls it, up to its await of updateDocument
saveDocument ==
    IF page_id = NoId \/ currentDocument = NoDocument
    THEN UNCHANGED <<now, user, dbVars, storeVars, calls, started>>
    ELSE IF ~HasChanges(page_title, page_content, currentDocument)
    THEN UNCHANGED <<now, user, dbVars, storeVars, calls, started>>
    ELSE UpdateDocumentCall(page_id, page_title, page_content)

\* The timeout of the auto-save effect expires after its delay
AutoSaveTimeout ==
    /\ timeoutId = 0
    /\ timeoutId' = NoTimeout
    /\ UNCHANGED <<page_id, page_title, page_content, lastSaved, panelVars>>
    /\ saveDocument
    /\ saving' = IF started' # started THEN saving \cup {started'} ELSE saving

\* updateDocument has returned to saveDocument, on success and on failure (it
\* never throws): setLastSaved(new Date()), if the page is still mounted
saveDocumentResumes(c) ==
    IF c.cid \in saving
    THEN /\ lastSaved' = now'
         /\ saving' = saving \ {c.cid}
    ELSE UNCHANGED saveVars

\* ----------------------------------------------------------- VersionHistory

\* The prop isOpen of the panel
isOpen == panel_documentId # NoId

\* The parent opens the panel for a document: the panel fetches its history
VersionHistoryOpen(documentId) ==
    /\ ~isOpen
    /\ panel_documentId' = documentId
    /\ UNCHANGED <<restoring, pageVars, saveVars>>
    /\ FetchVersionHistoryCall(documentId)

\* handleRestore for a version of the list, confirmed, up to its await of
\* restoreVersion
handleRestore(version) ==
    /\ isOpen
    /\ RestoreVersionCall(panel_documentId, version.id)
    /\ restoring' = restoring \cup {started'}
    /\ UNCHANGED <<panel_documentId, pageVars, saveVars>>

\* handleClose: onClose()
handleClose ==
    /\ isOpen
    /\ panel_documentId' = NoId
    /\ UNCHANGED <<now, user, dbVars, storeVars, calls, started, restoring, pageVars, saveVars>>

\* restoreVersion has returned to handleRestore, from its last line or from
\* its catch (it never throws): onClose()
handleRestoreResumes(c) ==
    IF c.cid \in restoring /\ \A c2 \in calls' : c2.cid = c.cid => c2.op # "restoreVersion"
    THEN /\ panel_documentId' = NoId
         /\ restoring' = restoring \ {c.cid}
    ELSE UNCHANGED panelVars

\* --------------------------------------------------------------- the system

Init ==
    /\ now = 0
    /\ user \in Users \cup {NoUser}
    /\ documents_tbl = <<>>
    /\ document_versions = <<>>
    /\ nextDocId = 1
    /\ nextVersionId = 1
    /\ documents = <<>>
    /\ currentDocument = NoDocument
    /\ versions = <<>>
    /\ loading = FALSE
    /\ versionsLoading = FALSE
    /\ error = NoError
    /\ calls = {}
    /\ started = 0
    /\ page_id = NoId
    /\ page_title = ""
    /\ page_content = ""
    /\ timeoutId = NoTimeout
    /\ lastSaved = NoDate
    /\ saving = {}
    /\ panel_documentId = NoId
    /\ restoring = {}

Next ==
    \/ UNCHANGED viewVars /\ CanStart /\ FetchDocumentsCall
    \/ UNCHANGED viewVars /\ CanStart /\ \E id \in DocIdArgs : FetchDocumentCall(id)
    \/ UNCHANGED viewVars /\ CanStart /\ \E newDocTitle \in NewDocTitles :
                                            handleCreateDocument(newDocTitle)
    \/ UNCHANGED viewVars /\ CanStart /\ \E id \in DocIdArgs, title \in Titles, content \in Contents :
                      UpdateDocumentCall(id, title, content)
    \/ UNCHANGED viewVars /\ CanStart /\ \E id \in DocIdArgs : DeleteDocumentCall(id)
    \/ UNCHANGED viewVars /\ CanStart /\ \E id \in DocIdArgs : FetchVersionHistoryCall(id)
    \/ UNCHANGED viewVars /\ CanStart /\ \E id \in DocIdArgs, vid \in VersionIdArgs : RestoreVersionCall(id, vid)
    \/ UNCHANGED viewVars /\ \E c \in calls, ok \in BOOLEAN : FetchDocumentsDone(c, ok)
    \/ UNCHANGED viewVars /\ \E c \in calls, ok \in BOOLEAN : FetchDocumentDone(c, ok)
    \/ UNCHANGED viewVars /\ \E c \in calls : CreateDocumentGetUser(c)
    \/ UNCHANGED viewVars /\ \E c \in calls, ok \in BOOLEAN : CreateDocumentInsert(c, ok)
    \/ UNCHANGED viewVars /\ \E c \in calls : CreateDocumentLocal(c)
    \/ UNCHANGED viewVars /\ \E c \in calls, ok \in BOOLEAN : UpdateDocumentUpdate(c, ok)
    \/ UNCHANGED viewVars /\ \E c \in calls : UpdateDocumentLocal(c)
    \/ UNCHANGED viewVars /\ \E c \in calls, ok \in BOOLEAN : DeleteDocumentDelete(c, ok)
    \/ UNCHANGED viewVars /\ \E c \in calls : DeleteDocumentLocal(c)
    \/ UNCHANGED viewVars /\ \E c \in calls, ok \in BOOLEAN, resolved \in BOOLEAN :
          FetchVersionHistoryDone(c, ok, resolved)
    \/ UNCHANGED viewVars /\ \E c \in calls, ok \in BOOLEAN : RestoreVersionSelect(c, ok)
    \/ UNCHANGED viewVars /\ \E c \in calls, ok \in BOOLEAN : RestoreVersionUpdate(c, ok)
    \/ UNCHANGED viewVars /\ \E c \in calls : RestoreVersionGetUser(c)
    \/ UNCHANGED viewVars /\ \E c \in calls, ok \in BOOLEAN : RestoreVersionInsert(c, ok)
    \/ UNCHANGED viewVars /\ \E c \in calls : RestoreVersionLocal(c)
    \/ UNCHANGED viewVars /\ ClearError
    \/ UNCHANGED viewVars /\ ClearVersions
    \/ UNCHANGED viewVars /\ \E u \in Users : SignIn(u)
    \/ UNCHANGED viewVars /\ SignOut

Spec == Init /\ [][Next]_vars

\* The end-to-end scenario of the version history: create "Draft", edit the
\* content to "Hello", rename to "Final", restore the first version; each call
\* is made when the one before has returned.
InitScenario ==
    Init /\ user \in Users

NextScenario ==
    \/ UNCHANGED viewVars /\ calls = {} /\ started = 0 /\ CreateDocumentCall("Draft")
    \/ UNCHANGED viewVars /\ calls = {} /\ started = 1 /\ UpdateDocumentCall(1, "Draft", "Hello")
    \/ UNCHANGED viewVars /\ calls = {} /\ started = 2 /\ UpdateDocumentCall(1, "Final", "Hello")
    \/ UNCHANGED viewVars /\ calls = {} /\ started = 3 /\ RestoreVersionCall(1, 1)
    \/ UNCHANGED viewVars /\ \E c \in calls : CreateDocumentGetUser(c)
    \/ UNCHANGED viewVars /\ \E c \in calls, ok \in BOOLEAN : CreateDocumentInsert(c, ok)
    \/ UNCHANGED viewVars /\ \E c \in calls : CreateDocumentLocal(c)
    \/ UNCHANGED viewVars /\ \E c \in calls, ok \in BOOLEAN : UpdateDocumentUpdate(c, ok)
    \/ UNCHANGED viewVars /\ \E c \in calls : UpdateDocumentLocal(c)
    \/ UNCHANGED viewVars /\ \E c \in calls, ok \in BOOLEAN : RestoreVersionSelect(c, ok)
    \/ UNCHANGED viewVars /\ \E c \in calls, ok \in BOOLEAN : RestoreVersionUpdate(c, ok)
    \/ UNCHANGED viewVars /\ \E c \in calls : RestoreVersionGetUser(c)
    \/ UNCHANGED viewVars /\ \E c \in calls, ok \in BOOLEAN : RestoreVersionInsert(c, ok)
    \/ UNCHANGED viewVars /\ \E c \in calls : RestoreVersionLocal(c)
    \/ UNCHANGED viewVars /\ \E c \in calls, ok \in BOOLEAN, resolved \in BOOLEAN :
          FetchVersionHistoryDone(c, ok, resolved)
    \/ UNCHANGED viewVars /\ ClearError

SpecScenario == InitScenario /\ [][NextScenario]_vars

\* The document page: a signed-in user creates a document on the dashboard,
\* opens it, edits the title and the content, and the page saves by itself.
MaxPageCalls == 5

CanStartPage ==
    started < MaxPageCalls /\ Cardinality(calls) < MaxInFlight

InitPage ==
    Init /\ user \in Users

NextPage ==
    \/ UNCHANGED viewVars /\ page_id = NoId /\ CanStartPage
                          /\ \E newDocTitle \in {<<" ">>, <<" ", "Draft", "\t">>} :
                                handleCreateDocument(newDocTitle)
    \/ UNCHANGED viewVars /\ page_id = NoId /\ ClearError
    \/ CanStartPage /\ \E id \in 1..(nextDocId - 1) : DocumentPageMount(id)
    \/ DocumentPageUnmount
    \/ \E newTitle \in Titles : handleTitleChange(newTitle)
    \/ \E newContent \in Contents : handleContentChange(newContent)
    \/ Tick
    \/ CanStartPage /\ AutoSaveTimeout
    \/ \E c \in calls : /\ CreateDocumentGetUser(c) /\ DocumentPageEffects(FALSE)
                        /\ UNCHANGED <<saveVars, panelVars>>
    \/ \E c \in calls, ok \in BOOLEAN : /\ CreateDocumentInsert(c, ok) /\ DocumentPageEffects(FALSE)
                                         /\ UNCHANGED <<saveVars, panelVars>>
    \/ \E c \in calls : /\ CreateDocumentLocal(c) /\ DocumentPageEffects(FALSE)
                        /\ UNCHANGED <<saveVars, panelVars>>
    \/ \E c \in calls, ok \in BOOLEAN :
          /\ FetchDocumentDone(c, ok) /\ DocumentPageEffects(NewCurrentDocument(c, ok))
          /\ UNCHANGED <<saveVars, panelVars>>
    \/ \E c \in calls, ok \in BOOLEAN :
          /\ UpdateDocumentUpdate(c, ok) /\ DocumentPageEffects(FALSE)
          /\ IF ok THEN UNCHANGED saveVars ELSE saveDocumentResumes(c)
          /\ UNCHANGED panelVars
    \/ \E c \in calls : /\ UpdateDocumentLocal(c)
                        /\ DocumentPageEffects(NewCurrentDocument(c, TRUE))
                        /\ saveDocumentResumes(c) /\ UNCHANGED panelVars

SpecPage == InitPage /\ [][NextPage]_vars

\* The version history panel: a signed-in user creates a document, opens the
\* panel for it, and restores versions of the list.
InitPanel ==
    Init /\ user \in Users

NextPanel ==
    \/ UNCHANGED viewVars /\ CanStart /\ handleCreateDocument(<<"Draft">>)
    \/ UNCHANGED viewVars /\ \E c \in calls : CreateDocumentGetUser(c)
    \/ UNCHANGED viewVars /\ \E c \in calls, ok \in BOOLEAN : CreateDocumentInsert(c, ok)
    \/ UNCHANGED viewVars /\ \E c \in calls : CreateDocumentLocal(c)
    \/ CanStart /\ \E id \in 1..(nextDocId - 1) : VersionHistoryOpen(id)
    \/ UNCHANGED viewVars /\ \E c \in calls, ok \in BOOLEAN, resolved \in BOOLEAN :
          FetchVersionHistoryDone(c, ok, resolved)
    \/ CanStart /\ \E version \in Range(versions) : handleRestore(version)
    \/ handleClose
    \/ \E c \in calls, ok \in BOOLEAN : /\ RestoreVersionSelect(c, ok)
                                         /\ handleRestoreResumes(c)
                                         /\ UNCHANGED <<pageVars, saveVars>>
    \/ \E c \in calls, ok \in BOOLEAN : /\ RestoreVersionUpdate(c, ok)
                                         /\ handleRestoreResumes(c)
                                         /\ UNCHANGED <<pageVars, saveVars>>
    \/ \E c \in calls : /\ RestoreVersionGetUser(c)
                        /\ handleRestoreResumes(c)
                        /\ UNCHANGED <<pageVars, saveVars>>
    \/ \E c \in calls, ok \in BOOLEAN : /\ RestoreVersionInsert(c, ok)
                                         /\ handleRestoreResumes(c)
                                         /\ UNCHANGED <<pageVars, saveVars>>
    \/ \E c \in calls : /\ RestoreVersionLocal(c)
                        /\ handleRestoreResumes(c)
                        /\ UNCHANGED <<pageVars, saveVars>>

SpecPanel == InitPanel /\ [][NextPanel]_vars

\* ------------------------------------------------------------------ claims

\* The version log of document d: its rows of `vers`, in insertion order
LogOf(vers, d) == SelectSeq(vers, LAMBDA v : v.document_id = d)
Log(d) == LogOf(document_versions, d)
Last(s) == s[Len(s)]

\* The step appends exactly one version to the log of d, of this change type
AppendsOne(d, change_type) ==
    LET log == LogOf(document_versions, d)
        log2 == LogOf(document_versions', d)
    IN /\ Len(log2) = Len(log) + 1
       /\ SubSeq(log2, 1, Len(log)) = log
       /\ Last(log2).change_type = change_type

\* The step leaves the log of d as it is
AppendsNone(d) ==
    LogOf(document_versions', d) = LogOf(document_versions, d)

\* The step is an UPDATE that touches the documents row d
UpdateOf(d) ==
    /\ d \in DOMAIN documents_tbl
    /\ d \in DOMAIN documents_tbl'
    /\ documents_tbl'[d].updated_at # documents_tbl[d].updated_at

\* The call c takes the step: it leaves the await it is at
Takes(c) ==
    \A c2 \in calls' : c2.cid = c.cid => c2.pc # c.pc \/ c2.op # c.op

\* C1: in every reachable state every existing document has at least one
\* version, and the first version of its log is the one its insert appended,
\* classified `created`.
C1_CreatedVersion ==
    \A d \in DOMAIN documents_tbl :
        /\ Len(Log(d)) >= 1
        /\ Log(d)[1].change_type = "created"
        /\ Log(d)[1].created_at = documents_tbl[d].created_at

\* C1 witness: a document that was created, edited and restored
C1_Witness ==
    \E d \in DOMAIN documents_tbl :
        /\ Len(Log(d)) >= 3
        /\ \E i \in 2..Len(Log(d)) : Log(d)[i].change_type = "restored"

\* C2: every update of an existing document that changes both its title and
\* its content appends exactly one version, classified `content_modified`.
C2_BothDiffer ==
    [][\A d \in DOMAIN documents_tbl :
         (/\ UpdateOf(d)
          /\ documents_tbl'[d].title # documents_tbl[d].title
          /\ documents_tbl'[d].content # documents_tbl[d].content)
         => AppendsOne(d, "content_modified")]_vars

\* C2 witness: two successive versions of a document differ in title and in
\* content, the later one being `content_modified`
C2_Witness ==
    \E d \in DOMAIN documents_tbl : \E i \in 1..(Len(Log(d)) - 1) :
        /\ Log(d)[i].title # Log(d)[i + 1].title
        /\ Log(d)[i].content # Log(d)[i + 1].content
        /\ Log(d)[i + 1].change_type = "content_modified"

\* C3: every update of an existing document that changes exactly one of title
\* and content appends exactly one version: `title_updated` when only the title
\* differs, `content_modified` when only the content differs.
C3_OneDiffers ==
    [][\A d \in DOMAIN documents_tbl :
         /\ (/\ UpdateOf(d)
             /\ documents_tbl'[d].title # documents_tbl[d].title
             /\ documents_tbl'[d].content = documents_tbl[d].content)
            => AppendsOne(d, "title_updated")
         /\ (/\ UpdateOf(d)
             /\ documents_tbl'[d].title = documents_tbl[d].title
             /\ documents_tbl'[d].content # documents_tbl[d].content)
            => AppendsOne(d, "content_modified")]_vars

\* C3 witness: a log with a title-only change and a content-only change
C3_Witness ==
    \E d \in DOMAIN documents_tbl : \E i, j \in 1..(Len(Log(d)) - 1) :
        /\ Log(d)[i].title # Log(d)[i + 1].title
        /\ Log(d)[i].content = Log(d)[i + 1].content
        /\ Log(d)[i + 1].change_type = "title_updated"
        /\ Log(d)[j].title = Log(d)[j + 1].title
        /\ Log(d)[j].content # Log(d)[j + 1].content
        /\ Log(d)[j + 1].change_type = "content_modified"

\* C4: an update of an existing document whose incoming title and content
\* equal the stored ones changes updated_at only, and appends no version.
C4_NoChangeNoVersion ==
    [][\A c \in calls :
         (/\ c.op = "updateDocument" /\ c.pc = "update"
          /\ \E c2 \in calls' : c2.cid = c.cid /\ c2.pc = "local"
          /\ Touches(user, documents_tbl, c.id)
          /\ documents_tbl[c.id].title = c.title
          /\ documents_tbl[c.id].content = c.content)
         => /\ document_versions' = document_versions
            /\ documents_tbl' = [documents_tbl EXCEPT ![c.id].updated_at = now']
            /\ now' > now]_vars

\* C4 witness: a document that was written after its last version was appended
C4_Witness ==
    \E d \in DOMAIN documents_tbl :
        /\ Len(Log(d)) >= 1
        /\ documents_tbl[d].updated_at > Last(Log(d)).created_at
        /\ \E c \in calls : c.op = "updateDocument" /\ c.pc = "local" /\ c.id = d

\* C5 (as claimed): a restoreVersion call appends to the log of its document
\* nothing but one version classified `restored` that carries the title and
\* the content of the restored version, whether or not they differ from the
\* live document: no request of the call appends any other version.
C5_RestoreAppendsOnlyRestored ==
    [][\A c \in calls :
         (/\ c.op = "restoreVersion"
          /\ c.pc \in {"update", "insert"}
          /\ Takes(c))
         => \/ AppendsNone(c.id)
            \/ /\ AppendsOne(c.id, "restored")
               /\ Last(LogOf(document_versions', c.id)).title = c.title
               /\ Last(LogOf(document_versions', c.id)).content = c.content]_vars

\* The end-to-end scenario has come to its end with every request successful:
\* the log of the document starts with the three versions of the edits, the
\* restore of the first version has made its requests and appended `restored`.
ScenarioDone ==
    /\ started = 4
    /\ 1 \in DOMAIN documents_tbl
    /\ Len(Log(1)) >= 4
    /\ Log(1)[1].change_type = "created" /\ Log(1)[1].title = "Draft" /\ Log(1)[1].content = ""
    /\ Log(1)[2].change_type = "content_modified"
    /\ Log(1)[2].title = "Draft" /\ Log(1)[2].content = "Hello"
    /\ Log(1)[3].change_type = "title_updated"
    /\ Log(1)[3].title = "Final" /\ Log(1)[3].content = "Hello"
    /\ Last(Log(1)).change_type = "restored"

\* C6 (as claimed): at the end of the scenario the document has title "Draft"
\* and content "", and its log is exactly four versions: created,
\* content_modified, title_updated, restored, the fourth carrying "Draft", "".
C6_ScenarioLog ==
    ScenarioDone =>
        /\ documents_tbl[1].title = "Draft" /\ documents_tbl[1].content = ""
        /\ Len(Log(1)) = 4
        /\ Log(1)[4].change_type = "restored"
        /\ Log(1)[4].title = "Draft" /\ Log(1)[4].content = ""

\* C7: when the update of a restoreVersion call is applied to its document,
\* the document has the title and the content of the restored version, the
\* first time and every time after (the version itself never changes).
C7_RestoreSetsDocument ==
    [][\A c \in calls :
         (/\ c.op = "restoreVersion" /\ c.pc = "update"
          /\ \E c2 \in calls' : c2.cid = c.cid /\ c2.pc = "getUser"
          /\ Touches(user, documents_tbl, c.id))
         => /\ c.id \in DOMAIN documents_tbl'
            /\ \A v \in Range(document_versions) :
                 v.id = c.versionId =>
                    /\ v \in Range(document_versions')
                    /\ documents_tbl'[c.id].title = v.title
                    /\ documents_tbl'[c.id].content = v.content]_vars

\* C7 witness: the same version was restored twice in a row, the log of the
\* document ends with the two `restored` versions, and the document has their
\* title and content
C7_Witness ==
    \E d \in DOMAIN documents_tbl :
        LET n == Len(Log(d)) IN
        /\ n >= 3
        /\ Log(d)[n].change_type = "restored"
        /\ Log(d)[n - 1].change_type = "restored"
        /\ Log(d)[n].title = Log(d)[n - 1].title
        /\ Log(d)[n].content = Log(d)[n - 1].content
        /\ documents_tbl[d].title = Log(d)[n].title
        /\ documents_tbl[d].content = Log(d)[n].content

\* The versions a step adds to document_versions
Added ==
    {v \in Range(document_versions') : \A w \in Range(document_versions) : w.id # v.id}

\* C8: a version classified `restored` is appended only by the insert of a
\* restoreVersion call; a step that writes the documents table (and so runs
\* the trigger), the update of restoreVersion included, appends only `created`,
\* `title_updated` or `content_modified` versions.
C8_RestoredOnlyByRestore ==
    [][\A v \in Added :
         /\ v.change_type = "restored" =>
               /\ documents_tbl' = documents_tbl
               /\ \E c \in calls : /\ c.op = "restoreVersion" /\ c.pc = "insert"
                                   /\ c.id = v.document_id /\ Takes(c)
         /\ documents_tbl' # documents_tbl =>
               v.change_type \in {"created", "title_updated", "content_modified"}]_vars

\* C8 witness: the update of a restore made the trigger append a version, and
\* the restore then appended its `restored` version with the same content
C8_Witness ==
    \E d \in DOMAIN documents_tbl : \E i \in 2..(Len(Log(d)) - 1) :
        /\ Log(d)[i].change_type \in {"title_updated", "content_modified"}
        /\ Log(d)[i + 1].change_type = "restored"
        /\ Log(d)[i + 1].title = Log(d)[i].title
        /\ Log(d)[i + 1].content = Log(d)[i].content

\* No save and no restore of document d is in flight
Settled(d) ==
    \A c \in calls : c.op \in {"updateDocument", "restoreVersion"} => c.id # d

\* C9 (as claimed): whenever no save and no restore is in flight for a
\* document, the last version of its log has the document's title and content.
C9_LastVersionIsDocument ==
    \A d \in DOMAIN documents_tbl :
        (Settled(d) /\ Len(Log(d)) >= 1) =>
            /\ Last(Log(d)).title = documents_tbl[d].title
            /\ Last(Log(d)).content = documents_tbl[d].content

\* C10: every version belongs to an existing document, in every reachable
\* state; the versions of a deleted document are gone with it.
C10_NoOrphanVersion ==
    \A v \in Range(document_versions) : v.document_id \in DOMAIN documents_tbl

\* C10 witness: a document that was inserted no longer exists, and at least
\* two versions that were appended are no longer in the version store
C10_Witness ==
    /\ \E d \in 1..(nextDocId - 1) : d \notin DOMAIN documents_tbl
    /\ nextVersionId - 1 >= Len(document_versions) + 2

\* C11: the version log is append-only. Every step keeps every stored version
\* as it is (same title, content, classification, user and creation time) and
\* in the same order; a version leaves the store only in the step in which a
\* deleteDocument call deletes its document.
C11_AppendOnly ==
    [][\A d \in 1..(nextDocId - 1) :
         \/ /\ Len(LogOf(document_versions', d)) >= Len(Log(d))
            /\ SubSeq(LogOf(document_versions', d), 1, Len(Log(d))) = Log(d)
         \/ /\ d \in DOMAIN documents_tbl
            /\ d \notin DOMAIN documents_tbl'
            /\ \E c \in calls : /\ c.op = "deleteDocument" /\ c.pc = "delete"
                                /\ c.id = d /\ Takes(c)]_vars

\* C11 witness: a log that a create, an update and a restore have appended
\* to, with its first version still there, while a version history was fetched
C11_Witness ==
    \E d \in DOMAIN documents_tbl :
        /\ Len(Log(d)) >= 3
        /\ Log(d)[1].change_type = "created"
        /\ \E i \in 2..Len(Log(d)) : Log(d)[i].change_type = "restored"
        /\ \E i \in 2..Len(Log(d)) :
             Log(d)[i].change_type \in {"title_updated", "content_modified"}
        /\ Len(versions) >= 1

\* C12 (as claimed): a restoreVersion call goes on to its success path (the
\* update of the local state with loading reset and no error) only from a step
\* in which its `restored` version was appended; when the insert fails or is
\* not made, the call ends in its catch with store.error set instead.
C12_RestoreInsertFailureReported ==
    [][\A c \in calls :
         (/\ c.op = "restoreVersion" /\ c.pc \in {"getUser", "insert"}
          /\ \E c2 \in calls' : /\ c2.cid = c.cid /\ c2.op = "restoreVersion"
                                /\ c2.pc = "local")
         => AppendsOne(c.id, "restored")]_vars

\* C13: when the select of a restoreVersion call finds no version with the
\* given versionId, the call ends there with store.error set and loading reset
\* to false, and nothing else changes: the documents, the version log,
\* store.currentDocument and store.documents are as before.
C13_RestoreNotFound ==
    [][\A c \in calls :
         (/\ c.op = "restoreVersion" /\ c.pc = "select" /\ Takes(c)
          /\ \A v \in Range(document_versions) : v.id # c.versionId)
         => /\ \A c2 \in calls' : c2.cid # c.cid
            /\ error' # NoError
            /\ loading' = FALSE
            /\ UNCHANGED <<documents_tbl, document_versions, currentDocument,
                           documents, versions>>]_vars

\* C13 witness: a restoreVersion has failed and no other call has set the
\* error since, while a document is stored with its log, listed in
\* store.documents and open as store.currentDocument
C13_Witness ==
    /\ error = "Failed to restore version"
    /\ loading = FALSE
    /\ documents_tbl # <<>>
    /\ document_versions # <<>>
    /\ documents # <<>>
    /\ currentDocument # NoDocument
    /\ \A c \in calls : c.op # "restoreVersion"

\* store.versions' is the history of document d: one entry for each version of
\* the set `expected` and no other, newest first by created_at, every entry
\* with the fields of its version and a user_email that is the resolved email
\* of its user or the fallback label 'Unknown user'
HistoryIs(d, expected) ==
    /\ Len(versions') = Cardinality(expected)
    /\ {versions'[i].id : i \in 1..Len(versions')} = {v.id : v \in expected}
    /\ \A i \in 1..Len(versions') :
         /\ \E v \in expected :
              /\ v.id = versions'[i].id
              /\ v.document_id = d /\ versions'[i].document_id = d
              /\ versions'[i].title = v.title /\ versions'[i].content = v.content
              /\ versions'[i].change_type = v.change_type
              /\ versions'[i].user_id = v.user_id
              /\ versions'[i].created_at = v.created_at
              /\ versions'[i].user_email \in {Email(v.user_id).email, "Unknown user"}
         /\ versions'[i].user_email # ""
         /\ \A j \in (i + 1)..Len(versions') :
              versions'[i].created_at >= versions'[j].created_at

\* The step in which the fetchVersionHistory call c gets its response has the
\* shape of the catch: the error is stored and store.versions is left alone
HistoryFailed ==
    /\ error' = "Failed to fetch version history"
    /\ versions' = versions

\* C14 (as claimed): a successful fetchVersionHistory(documentId) leaves in
\* store.versions all versions of that document and only those, newest first,
\* each with the resolved email or 'Unknown user', whoever the caller is.
C14_HistoryAllVersions ==
    [][\A c \in calls :
         (c.op = "fetchVersionHistory" /\ c.pc = "select" /\ Takes(c))
         => \/ HistoryFailed
            \/ /\ versionsLoading' = FALSE
               /\ error' = error
               /\ HistoryIs(c.id, Range(Log(c.id)))]_vars

\* C14 (amended): a successful fetchVersionHistory(documentId) leaves in
\* store.versions all versions of that document and only those, newest first,
\* each with the resolved email or 'Unknown user', when the acting user owns
\* the document; for any other caller (signed out included) the row level
\* security hides the versions and store.versions is empty, without an error.
C14_HistoryOfOwnDocument ==
    [][\A c \in calls :
         (c.op = "fetchVersionHistory" /\ c.pc = "select" /\ Takes(c))
         => \/ HistoryFailed
            \/ /\ versionsLoading' = FALSE
               /\ error' = error
               /\ IF VersionPolicy(user, documents_tbl, c.id)
                  THEN HistoryIs(c.id, Range(Log(c.id)))
                  ELSE versions' = <<>>]_vars

\* C14 witness: store.versions holds the whole log of a document of the acting
\* user, two versions or more, newest first, with an unresolved email
C14_Witness ==
    /\ Len(versions) >= 2
    /\ versions[1].created_at > versions[2].created_at
    /\ versions[1].user_email = "Unknown user"
    /\ versions[1].document_id \in DOMAIN documents_tbl
    /\ Len(versions) = Len(Log(versions[1].document_id))
    /\ user = versions[1].user_id

\* The updateDocument calls a step issues
NewSaves ==
    {c \in calls' : c.op = "updateDocument" /\ \A c0 \in calls : c0.cid # c.cid}

\* The step is an edit of the title or the content in the editor of the page
IsEdit ==
    /\ page_id # NoId /\ page_id' = page_id
    /\ currentDocument' = currentDocument
    /\ page_title' # page_title \/ page_content' # page_content

\* The title or the content of the page differ from the loaded document
Dirty ==
    /\ page_id # NoId /\ currentDocument # NoDocument
    /\ page_title # currentDocument.title \/ page_content # currentDocument.content

\* C15: auto-save is debounced. Every edit restarts the full delay of 1 second
\* and issues no call; an updateDocument call is issued only by the step in
\* which the timeout expires, a full delay after the last edit; that step
\* issues at most one call, exactly one when the title or the content of the
\* page differ from the loaded document and none when they do not, and the
\* call carries the title and the content the page has at that time.
C15_AutoSaveDebounced ==
    [][/\ IsEdit => (timeoutId' = AutoSaveDelay /\ NewSaves = {})
       /\ NewSaves # {} => (timeoutId = 0 /\ timeoutId' = NoTimeout)
       /\ Cardinality(NewSaves) <= 1
       /\ \A c \in NewSaves :
            /\ Dirty
            /\ c.id = page_id /\ c.title = page_title /\ c.content = page_content
            /\ page_title' = page_title /\ page_content' = page_content
       /\ (timeoutId = 0 /\ timeoutId' = NoTimeout /\ Dirty /\ IsEdit = FALSE
           /\ page_id' = page_id /\ currentDocument' = currentDocument)
          => Cardinality(NewSaves) = 1]_vars

\* C15 witness: one save is in flight, the only one since the document was
\* created and loaded, and it carries a new title and a new content: the two
\* edits of the burst went into one call
C15_Witness ==
    /\ started = 3
    /\ timeoutId = NoTimeout
    /\ currentDocument # NoDocument
    /\ \E c \in calls :
         /\ c.op = "updateDocument" /\ c.pc = "update" /\ c.id = page_id
         /\ c.title # currentDocument.title
         /\ c.content # currentDocument.content
         /\ c.title = page_title /\ c.content = page_content

\* The step is the failure of an updateDocument call: the call ends at its
\* update request, in its catch
SaveFails ==
    \E c \in calls : /\ c.op = "updateDocument" /\ c.pc = "update"
                     /\ \A c2 \in calls' : c2.cid # c.cid

\* A timeout is pending that will save: the page differs from the document
ArmedDirty ==
    timeoutId # NoTimeout /\ Dirty

\* C16: a failed save is not retried in place. The step in which an
\* updateDocument call fails sets no timeout, leaves the title and the content
\* of the page and the loaded document as they are, and issues no call; a call
\* is issued only when a pending timeout expires; and a timeout that will save
\* comes to be pending only by an edit of the title or the content.
C16_FailedSaveNotRetried ==
    [][/\ SaveFails => /\ UNCHANGED <<page_title, page_content, currentDocument, timeoutId>>
                       /\ NewSaves = {}
       /\ NewSaves # {} => (timeoutId = 0 /\ Dirty)
       /\ (~ArmedDirty /\ ArmedDirty') => IsEdit]_vars

\* C16 witness: a save of the open page has failed, no save is in flight, no
\* timeout is pending, and the page still differs from the loaded document
C16_Witness ==
    /\ error = "Failed to update document"
    /\ Dirty
    /\ timeoutId = NoTimeout
    /\ \A c \in calls : c.op # "updateDocument"

\* C17 (as claimed): a storage error of a save does not end the editing
\* session. Whenever the page is open on its loaded document, nothing is
\* loading, and the store holds the error of a failed save, the page still
\* shows its editor, so that the user can make a further edit.
C17_EditorSurvivesError ==
    (/\ page_id # NoId
     /\ currentDocument # NoDocument
     /\ currentDocument.id = page_id
     /\ ~loading
     /\ error = "Failed to update document")
    => EditorShown

\* The title is empty or white space only
Blank(title) ==
    \E s \in NewDocTitles : (\A i \in 1..Len(s) : s[i] \in WhiteSpace) /\ title = Join(s)

\* C18: an empty or white-space-only title is rejected at creation. No step
\* starts a createDocument call with such a title, no step inserts a documents
\* row with such a title, and no step puts a document with such a title at the
\* head of store.documents; so a rejected creation changes nothing.
C18_NoBlankTitleCreated ==
    [][/\ \A c \in calls' :
            (c.op = "createDocument" /\ \A c0 \in calls : c0.cid # c.cid)
            => ~Blank(c.title)
       /\ \A d \in DOMAIN documents_tbl' :
            d \notin DOMAIN documents_tbl => ~Blank(documents_tbl'[d].title)
       /\ Len(documents') > Len(documents) => ~Blank(documents'[1].title)]_vars

\* C18 witness: a document was created from a title typed with white space
\* around it, and is listed; the row has the trimmed title
C18_Witness ==
    /\ documents # <<>>
    /\ documents[1].title = Trim(<<" ", "Draft", "\t">>)
    /\ documents[1].id \in DOMAIN documents_tbl
    /\ documents_tbl[documents[1].id].title = "Draft"
    /\ ~Blank(documents[1].title)
    /\ Blank(" ") /\ Blank("") /\ ~Blank(" Draft\t")

\* C19: every mutating operation requires an acting user. With no user signed
\* in, no step changes the documents or the version log; a createDocument call
\* that finds no user ends with the error 'User not authenticated', loading
\* reset to false, and store.documents as before; and no request of a
\* restoreVersion call changes the live document.
C19_NoUserNoMutation ==
    [][user = NoUser =>
         /\ UNCHANGED <<documents_tbl, document_versions>>
         /\ \A c \in calls :
              (c.op = "createDocument" /\ c.pc = "getUser" /\ Takes(c))
              => /\ \A c2 \in calls' : c2.cid # c.cid
                 /\ error' = "User not authenticated"
                 /\ loading' = FALSE
                 /\ documents' = documents
         /\ \A c \in calls :
              (c.op = "restoreVersion" /\ Takes(c) /\ c.id \in DOMAIN documents_tbl)
              => /\ c.id \in DOMAIN documents_tbl'
                 /\ documents_tbl'[c.id] = documents_tbl[c.id]]_vars

\* C19 witness: with no user signed in, a createDocument call has failed as
\* not authenticated, and a restoreVersion call has made its update request
\* on a stored document
C19_Witness ==
    /\ user = NoUser
    /\ error = "User not authenticated"
    /\ loading = FALSE
    /\ \E c \in calls :
         /\ c.op = "restoreVersion" /\ c.pc = "getUser"
         /\ c.id \in DOMAIN documents_tbl

\* C20: every version the trigger appends carries the title and the content
\* the row has right after the write that fired it, not the previous ones, and
\* the decision compares that row with the row as it was right before the same
\* write: a version is appended exactly when they differ in title or content,
\* `content_modified` when the content differs and `title_updated` otherwise.
C20_IncomingValues ==
    [][\A d \in DOMAIN documents_tbl' :
         documents_tbl' # documents_tbl =>
           LET added == {v \in Added : v.document_id = d}
               post == documents_tbl'[d]
           IN /\ \A v \in added : v.title = post.title /\ v.content = post.content
              /\ Cardinality(added) <= 1
              /\ d \notin DOMAIN documents_tbl =>
                   \E v \in added : v.change_type = "created"
              /\ d \in DOMAIN documents_tbl =>
                   LET pre == documents_tbl[d]
                       differ == pre.title # post.title \/ pre.content # post.content
                   IN /\ differ <=> added # {}
                      /\ \A v \in added :
                           v.change_type = IF pre.content # post.content
                                           THEN "content_modified"
                                           ELSE "title_updated"]_vars

\* C20 witness: the second version of a log was appended by an update, it
\* differs from the first version, and when it is the last one the document
\* has its title and content
C20_Witness ==
    \E d \in DOMAIN documents_tbl :
        /\ Len(Log(d)) = 2
        /\ Log(d)[2].change_type \in {"title_updated", "content_modified"}
        /\ Log(d)[2].title # Log(d)[1].title \/ Log(d)[2].content # Log(d)[1].content
        /\ documents_tbl[d].title = Log(d)[2].title
        /\ documents_tbl[d].content = Log(d)[2].content

\* C21 (as claimed): the panel closes after a restore only if the restore
\* succeeded. In the step in which a restoreVersion call of the open panel
\* ends in its catch, at whichever request it failed, the panel stays open.
C21_PanelStaysOpenOnFailure ==
    [][\A c \in calls :
         (/\ c.op = "restoreVersion" /\ c.cid \in restoring
          /\ isOpen
          /\ \A c2 \in calls' : c2.cid # c.cid)
         => panel_documentId' = panel_documentId]_vars

\* C22 (as claimed): an edit made while a save is in flight is not lost. In
\* the step in which a save of the page completes, when the title or the
\* content of the page differ from what that save carried (a newer edit), the
\* page keeps its title and its content.
C22_EditInFlightKept ==
    [][\A c \in calls :
         (/\ c.op = "updateDocument" /\ c.pc = "local" /\ c.cid \in saving
          /\ Takes(c)
          /\ page_id # NoId /\ page_id' = page_id
          /\ page_title # c.title \/ page_content # c.content)
         => /\ page_title' = page_title
            /\ page_content' = page_content]_vars

\* C23 (as claimed): when saves of the open document overlap and succeed, then
\* once no call is in flight and nothing has failed, the stored document has
\* the title and the content of store.currentDocument, whichever order the
\* writes and their responses were processed in.
C23_StoredIsCurrentDocument ==
    (/\ calls = {}
     /\ error = NoError
     /\ page_id # NoId
     /\ currentDocument # NoDocument
     /\ currentDocument.id = page_id
     /\ page_id \in DOMAIN documents_tbl)
    => /\ documents_tbl[page_id].title = currentDocument.title
       /\ documents_tbl[page_id].content = currentDocument.content

\* C24 (as claimed): restoreVersion(documentId, versionId) writes onto the
\* document, and logs as `restored`, only the title and content of a version
\* of that same document: in a step in which a restoreVersion call changes the
\* row of its document or appends to its log, the restored version has the
\* call's documentId as its document_id.
C24_RestoresOwnVersion ==
    [][\A c \in calls :
         (/\ c.op = "restoreVersion" /\ c.pc \in {"update", "insert"} /\ Takes(c)
          /\ c.id \in DOMAIN documents_tbl
          /\ \/ documents_tbl' # documents_tbl
             \/ document_versions' # document_versions)
         => \A v \in Range(document_versions) :
               v.id = c.versionId => v.document_id = c.id]_vars

\* C25 (as claimed): every updateDocument call issued by auto-save targets the
\* document the title and the content of the page were loaded from: in the
\* step that issues the call, store.currentDocument is loaded and its id is
\* the id of the call, the id of the route.
C25_SaveTargetsLoadedDocument ==
    [][\A c \in NewSaves :
          /\ currentDocument # NoDocument
          /\ c.id = page_id
          /\ c.id = currentDocument.id]_vars

\* The restoreVersion call c of this state, as it is in the next state
After(c) ==
    {c2 \in calls' : c2.cid = c.cid /\ c2.op = "restoreVersion"}

\* The call c ends in this step: it is no longer in flight, in any form
Ends(c) ==
    \A c2 \in calls' : c2.cid # c.cid

\* C26: within one restoreVersion call the steps are ordered read version,
\* overwrite document, append `restored` version, and a later step runs only
\* if the earlier one returned no error. The read is followed by the overwrite
\* or ends the call; the overwrite is followed by getUser or ends the call; a
\* call that ends at the read or at the overwrite has set store.error and has
\* written nothing in that step; the insert is reached only from getUser and
\* getUser only from an overwrite that returned no error; and a `restored`
\* version is appended only by the insert step of such a call.
C26_RestoreStepsOrdered ==
    [][/\ \A c \in calls :
            (c.op = "restoreVersion" /\ Takes(c)) =>
                /\ c.pc = "select" =>
                      /\ UNCHANGED <<documents_tbl, document_versions>>
                      /\ \/ Ends(c) /\ error' # NoError
                         \/ /\ \E c2 \in After(c) : c2.pc = "update"
                            /\ UNCHANGED <<error, loading>>
                /\ c.pc = "update" =>
                      \/ /\ Ends(c) /\ error' # NoError
                         /\ UNCHANGED <<documents_tbl, document_versions>>
                      \/ /\ \E c2 \in After(c) : c2.pc = "getUser"
                         /\ UNCHANGED <<error, loading>>
                /\ c.pc = "getUser" =>
                      /\ UNCHANGED <<documents_tbl, document_versions>>
                      /\ \E c2 \in After(c) : c2.pc \in {"insert", "local"}
                /\ c.pc = "insert" => \E c2 \in After(c) : c2.pc = "local"
       /\ \A v \in Added :
            v.change_type = "restored" =>
                \E c \in calls : /\ c.op = "restoreVersion" /\ c.pc = "insert"
                                 /\ Takes(c) /\ c.id = v.document_id
                                 /\ v.title = c.title /\ v.content = c.content]_vars

\* C26 witness: a restoreVersion call is past its insert step, its overwrite
\* has changed the document (the trigger logged the change as the last version
\* of the log) and the log holds no `restored` version
C26_Witness ==
    \E c \in calls :
        /\ c.op = "restoreVersion" /\ c.pc = "local"
        /\ c.id \in DOMAIN documents_tbl
        /\ documents_tbl[c.id].title = c.title
        /\ documents_tbl[c.id].content = c.content
        /\ Len(Log(c.id)) >= 3
        /\ Last(Log(c.id)).change_type \in {"title_updated", "content_modified"}
        /\ Last(Log(c.id)).title = c.title
        /\ Log(c.id)[Len(Log(c.id)) - 1].title # c.title
        /\ \A i \in 1..Len(Log(c.id)) : Log(c.id)[i].change_type # "restored"

\* The step is the successful completion of a save of the document the page
\* shows: updateDocument merges its updates into store.currentDocument
SaveCompletes ==
    \E c \in calls :
        /\ c.op = "updateDocument" /\ c.pc = "local" /\ c.cid \in saving /\ Takes(c)
        /\ page_id # NoId /\ page_id' = page_id
        /\ currentDocument # NoDocument /\ currentDocument.id = c.id

\* C27: auto-save reaches quiescence. The successful completion of a save
\* replaces store.currentDocument, which re-arms the timeout, and leaves the
\* title and the content of the page equal to the document's; from a page that
\* equals its document only an edit makes the page differ from it; and an
\* updateDocument call is issued only while the page differs from its
\* document. So after a successful save and without a further edit the re-armed
\* timeout expires without issuing a call.
C27_AutoSaveQuiescent ==
    [][/\ SaveCompletes => /\ timeoutId' = AutoSaveDelay
                           /\ ~Dirty'
                           /\ NewSaves = {}
       /\ (~Dirty /\ Dirty') => IsEdit
       /\ NewSaves # {} => Dirty]_vars

\* C27 witness: a save has completed successfully and was stored, the re-armed
\* timeout has expired, and no call was issued: nothing is in flight and the
\* page equals its document
C27_Witness ==
    /\ page_id # NoId
    /\ lastSaved # NoDate
    /\ error = NoError
    /\ calls = {}
    /\ saving = {}
    /\ timeoutId = NoTimeout
    /\ currentDocument # NoDocument /\ currentDocument.id = page_id
    /\ ~Dirty
    /\ page_id \in DOMAIN documents_tbl
    /\ documents_tbl[page_id].title = page_title
    /\ documents_tbl[page_id].content = page_content
    /\ documents_tbl[page_id].updated_at # documents_tbl[page_id].created_at

\* C28 (as claimed): the lastSaved time of the page is set only when the
\* corresponding updateDocument has persisted the change: a step that sets
\* lastSaved on the open page is the successful completion of a save, and the
\* step in which the storage write of a save fails leaves lastSaved as it is.
C28_LastSavedOnlyIfPersisted ==
    [][/\ (page_id # NoId /\ page_id' = page_id /\ lastSaved' # lastSaved)
            => \E c \in calls : /\ c.op = "updateDocument" /\ c.pc = "local"
                                /\ c.cid \in saving /\ Takes(c)
       /\ (SaveFails /\ page_id # NoId /\ page_id' = page_id)
            => lastSaved' = lastSaved]_vars

\* The operations of the store that set loading = true when they start
LoadingOps ==
    {"fetchDocuments", "fetchDocument", "createDocument", "deleteDocument",
     "restoreVersion"}

\* C29 (as claimed): store.loading is true whenever at least one of
\* fetchDocuments, fetchDocument, createDocument, deleteDocument or
\* restoreVersion is in flight: the end of one of them does not reset loading
\* while another one that set it is pending.
C29_LoadingWhileInFlight ==
    (\E c \in calls : c.op \in LoadingOps) => loading

====
